---- MODULE Spec2Model ----
(***************************************************************************)
(* The flight-search backend: the POST /search_flights handler with trip   *)
(* types (oneway, roundtrip, multi), the offer normalizer mapOfferToOption *)
(* and the budget filter.  One behaviour is the handling of one request:   *)
(* the handler is cut at its awaits (the token call, each search call),    *)
(* where the upstream answers or fails.                                    *)
(***************************************************************************)
EXTENDS Integers, Sequences, FiniteSets, TLC

VARIABLES
    req,      \* req.body, as received
    pc,       \* where the handler stands
    i,        \* the multi-city loop index (0-based, as in the code)
    legs,     \* the legs pushed so far
    calls,    \* every upstream call issued, in order, with its outcome
    res,      \* the HTTP response sent
    failed,   \* what threw, if anything: "none", "auth", "search", "normalize"
    offer,    \* the normalizer's input  (normalizer specification)
    option    \* the normalizer's output (normalizer specification)

vars == <<req, pc, i, legs, calls, res, failed, offer, option>>

(***************************************************************************)
(* Bounds                                                                  *)
(***************************************************************************)
MaxLegs == 2      \* longest segments array of a multi request
MaxOffers == 2    \* most offers in one upstream answer
MaxFareDetails == 2   \* longest fareDetailsBySegment list given to the normalizer

(***************************************************************************)
(* JavaScript values                                                       *)
(***************************************************************************)
Undefined == [t |-> "undefined"]
Null == [t |-> "null"]
NaN == [t |-> "NaN"]
Str(s) == [t |-> "string", s |-> s]
Num(n) == [t |-> "number", n |-> n]
Arr(a) == [t |-> "array", a |-> a]

\* !v
Falsy(v) == v.t \in {"undefined", "null", "NaN"}
            \/ (v.t = "string" /\ v.s = "")
            \/ (v.t = "number" /\ v.n = 0)

\* v === undefined || v === null
Nullish(v) == v.t \in {"undefined", "null"}

\* a || b
OrElse(a, b) == IF Falsy(a) THEN b ELSE a

\* a ?? b
Coalesce(a, b) == IF Nullish(a) THEN b ELSE a

\* Array.isArray(v)
IsArray(v) == v.t = "array"

\* a <= b on numbers: false as soon as one side is NaN
LessEq(a, b) == a.t = "number" /\ b.t = "number" /\ a.n <= b.n

\* the destructuring default: const { f = d } = req.body
Default(v, d) == IF v = Undefined THEN d ELSE v

(***************************************************************************)
(* parseFloat on a string given as its characters: the value of the        *)
(* longest leading run of decimal digits, NaN when there is none.  (Signs, *)
(* fractions and exponents are not among the characters modelled.)         *)
(***************************************************************************)
Digits == {"0", "1", "2", "3", "4", "5", "6", "7", "8", "9"}

DigitValue(c) == CASE c = "0" -> 0 [] c = "1" -> 1 [] c = "2" -> 2 [] c = "3" -> 3
                   [] c = "4" -> 4 [] c = "5" -> 5 [] c = "6" -> 6 [] c = "7" -> 7
                   [] c = "8" -> 8 [] c = "9" -> 9

RECURSIVE DigitPrefix(_)
DigitPrefix(s) == IF s = <<>> \/ Head(s) \notin Digits THEN <<>>
                  ELSE <<Head(s)>> \o DigitPrefix(Tail(s))

RECURSIVE DecimalValue(_)
DecimalValue(s) == IF s = <<>> THEN 0
                   ELSE 10 * DecimalValue(SubSeq(s, 1, Len(s) - 1)) + DigitValue(s[Len(s)])

parseFloat(s) == IF DigitPrefix(s) = <<>> THEN NaN ELSE Num(DecimalValue(DigitPrefix(s)))

(***************************************************************************)
(* The offer normalizer                                                    *)
(***************************************************************************)
\* what a property read on undefined raises
TypeError == [t |-> "TypeError"]

\* variant: checkedBags read with || like the other four fields
FareOfDetailBagsOr(fd) ==
    [cabin       |-> OrElse(fd.cabin, Null),
     class       |-> OrElse(fd.class, Null),
     brandedFare |-> OrElse(fd.brandedFare, Null),
     fareBasis   |-> OrElse(fd.fareBasis, Null),
     checkedBags |-> OrElse(IF Nullish(fd.includedCheckedBags) THEN Undefined
                            ELSE fd.includedCheckedBags.quantity, Null)]

\* one entry of segmentFareMap, from one fareDetailsBySegment entry
FareOfDetail(fd) ==
    [cabin       |-> OrElse(fd.cabin, Null),
     class       |-> OrElse(fd.class, Null),
     brandedFare |-> OrElse(fd.brandedFare, Null),
     fareBasis   |-> OrElse(fd.fareBasis, Null),
     checkedBags |-> Coalesce(IF Nullish(fd.includedCheckedBags) THEN Undefined
                              ELSE fd.includedCheckedBags.quantity, Null)]

fallbackFare ==
    [cabin |-> Null, class |-> Null, brandedFare |-> Null, fareBasis |-> Null,
     checkedBags |-> Null]

\* offer.travelerPricings?.[0] || {}
FirstTraveler(o) ==
    LET tp == o.travelerPricings
        first == IF Nullish(tp) \/ tp.a = <<>> THEN Undefined ELSE tp.a[1]
    IN  OrElse(first, [t |-> "object", fareDetailsBySegment |-> Undefined])

\* traveler.fareDetailsBySegment || []
FareDetailsOf(traveler) == OrElse(traveler.fareDetailsBySegment, Arr(<<>>)).a

\* fareDetails.forEach(fd => segmentFareMap[fd.segmentId] = {...}): a later entry
\* for the same segment identifier overwrites an earlier one
RECURSIVE SegmentFareMap(_)
SegmentFareMap(fareDetails) ==
    IF fareDetails = <<>> THEN [k \in {} |-> fallbackFare]
    ELSE LET n == Len(fareDetails)
             fd == fareDetails[n]
         IN  (fd.segmentId :> FareOfDetail(fd)) @@ SegmentFareMap(SubSeq(fareDetails, 1, n - 1))

\* segmentFareMap[id]
FareLookup(segmentFareMap, id) ==
    IF id \in DOMAIN segmentFareMap THEN segmentFareMap[id] ELSE Undefined

\* variant: segments[0]?.id, as the airline field is read
FirstSegmentIdOptional(segments) == IF segments = <<>> THEN Undefined ELSE segments[1].id

\* segments[0].id, as the offer-level fare fields read it (no optional chaining)
FirstSegmentId(segments) == IF segments = <<>> THEN TypeError ELSE segments[1].id

\* segmentFareMap[segments[0].id]?.f ?? null, for the four offer-level fields
OfferLevelFare(segmentFareMap, firstId) ==
    LET e == FareLookup(segmentFareMap, firstId)
    IN  IF e = Undefined THEN fallbackFare ELSE e

\* const fareInfo = segmentFareMap[s.id] || fallbackFare  (an entry is an object: truthy)
FareInfo(segmentFareMap, s) ==
    LET e == FareLookup(segmentFareMap, s.id)
    IN  IF e = Undefined THEN fallbackFare ELSE e

MapSegment(s, fareInfo) ==
    [from |-> s.departure.iataCode, to |-> s.arrival.iataCode,
     departureTime |-> s.departure.at, arrivalTime |-> s.arrival.at,
     carrier |-> s.carrierCode, flightNumber |-> s.number,
     cabin |-> fareInfo.cabin, class |-> fareInfo.class,
     brandedFare |-> fareInfo.brandedFare, fareBasis |-> fareInfo.fareBasis,
     checkedBags |-> fareInfo.checkedBags]

mapOfferToOption(o) ==
    IF o.itineraries = <<>> THEN TypeError      \* firstItinerary.segments on undefined
    ELSE
    LET firstItinerary == o.itineraries[1]
        segments == firstItinerary.segments
        fareDetails == FareDetailsOf(FirstTraveler(o))
        segmentFareMap == SegmentFareMap(fareDetails)
        firstId == FirstSegmentId(segments)
    IN  IF firstId = TypeError THEN TypeError   \* segments[0].id on undefined
        ELSE
        LET top == OfferLevelFare(segmentFareMap, firstId)
        IN  [t |-> "option",
             id |-> o.id,
             price |-> parseFloat(o.price.total),
             currency |-> o.price.currency,
             duration |-> firstItinerary.duration,
             airline |-> IF segments = <<>> THEN Undefined ELSE segments[1].carrierCode,
             cabin |-> top.cabin,
             brandedFare |-> top.brandedFare,
             fareBasis |-> top.fareBasis,
             checkedBags |-> top.checkedBags,
             segments |-> [k \in 1..Len(segments) |->
                             MapSegment(segments[k],
                                        FareInfo(segmentFareMap, segments[k]))]]

(***************************************************************************)
(* The request handler: helpers                                            *)
(***************************************************************************)
DefaultAdults == 1
DefaultMax == 5
DefaultCurrency == Str("KWD")
DefaultTripType == Str("oneway")

tripType(r) == Default(r.tripType, DefaultTripType)
adults(r) == Default(r.adults, Num(DefaultAdults))
currency(r) == Default(r.currency, DefaultCurrency)
max(r) == Default(r.max, Num(DefaultMax))

NoResponse == [status |-> 0]
Respond400(msg) == [status |-> 400, body |-> [error |-> msg]]
Respond500(details) ==
    [status |-> 500, body |-> [error |-> "Failed to search flights", details |-> details]]
Respond200(body) == [status |-> 200, body |-> body]

\* params.name = v
WithParam(params, name, v) == (name :> v) @@ params

\* if (maxPrice) params.maxPrice = maxPrice; if (travelClass) params.travelClass = travelClass
OptionalParams(params, r) ==
    LET p1 == IF ~Falsy(r.maxPrice) THEN WithParam(params, "maxPrice", r.maxPrice) ELSE params
    IN  IF ~Falsy(r.travelClass) THEN WithParam(p1, "travelClass", r.travelClass) ELSE p1

BaseParams(r, origin, destination, date) ==
    [originLocationCode |-> origin, destinationLocationCode |-> destination,
     departureDate |-> date, adults |-> adults(r), currencyCode |-> currency(r),
     max |-> max(r)]

\* the parameter set of the single oneway/roundtrip search
SingleParams(r) ==
    LET p0 == BaseParams(r, r.origin, r.destination, r.departureDate)
        p1 == IF tripType(r) = Str("roundtrip") THEN WithParam(p0, "returnDate", r.returnDate)
              ELSE p0
    IN  OptionalParams(p1, r)

\* the parameter set of one multi-city leg
LegParams(r, seg) == OptionalParams(BaseParams(r, seg.origin, seg.destination, seg.date), r)

\* !seg.origin || !seg.destination || !seg.date
InvalidSeg(seg) == Falsy(seg.origin) \/ Falsy(seg.destination) \/ Falsy(seg.date)

\* !origin || !destination || !departureDate
MissingSingleField(r) == Falsy(r.origin) \/ Falsy(r.destination) \/ Falsy(r.departureDate)

\* !Array.isArray(segments) || segments.length === 0
MissingSegments(r) == ~IsArray(r.segments) \/ r.segments.a = <<>>

\* offers.map(mapOfferToOption): the first throw ends the map
MapOffers(offers) == [k \in 1..Len(offers) |-> mapOfferToOption(offers[k])]
Throws(mapped) == \E k \in 1..Len(mapped) : mapped[k] = TypeError

KeepWithinBudget(options, maxPrice) ==
    SelectSeq(options, LAMBDA o : LessEq(o.price, maxPrice))

\* if (maxPrice) options = options.filter(o => o.price <= maxPrice)
BudgetFilter(options, maxPrice) ==
    IF ~Falsy(maxPrice) THEN KeepWithinBudget(options, maxPrice) ELSE options

SingleBody(r, options) ==
    [tripType |-> tripType(r), origin |-> r.origin, destination |-> r.destination,
     departureDate |-> r.departureDate,
     returnDate |-> IF tripType(r) = Str("roundtrip") THEN r.returnDate ELSE Undefined,
     options |-> options]

MultiBody(r, legsNow) ==
    [tripType |-> Str("multi"), adults |-> adults(r), currency |-> currency(r),
     max |-> max(r), maxPrice |-> OrElse(r.maxPrice, Undefined), legs |-> legsNow]

\* variant: the loop index pushed as it is
LegEntryZeroBased(k, seg, options) ==
    [legIndex |-> k, origin |-> seg.origin, destination |-> seg.destination,
     date |-> seg.date, options |-> options]

\* legs.push({ legIndex: i + 1, ... })
LegEntry(k, seg, options) ==
    [legIndex |-> k + 1, origin |-> seg.origin, destination |-> seg.destination,
     date |-> seg.date, options |-> options]

(***************************************************************************)
(* Inputs: request bodies and upstream answers                             *)
(***************************************************************************)
Present(v) == {Undefined, Str(v)}
PresentOrEmpty(v) == {Undefined, Str(""), Str(v)}

MaxPrices == {Undefined, Num(0), Num(4)}

NoSingleFields ==
    [origin |-> Undefined, destination |-> Undefined, departureDate |-> Undefined,
     returnDate |-> Undefined]

Shared == [adults : {Undefined}, currency : {Undefined}, max : {Undefined},
           maxPrice : MaxPrices, travelClass : Present("BUSINESS")]

SingleRequests ==
    { sh @@ f @@ [tripType |-> tt, segments |-> Undefined] :
        sh \in Shared,
        tt \in {Undefined, Str("oneway"), Str("roundtrip")},
        f \in [origin : PresentOrEmpty("KWI"), destination : Present("DXB"),
               departureDate : Present("2025-06-01"), returnDate : Present("2025-06-09")] }

LegSpecs ==
    { [origin |-> Str("KWI"), destination |-> Str("DXB"), date |-> Str("2025-06-01")],
      [origin |-> Str("DXB"), destination |-> Str("LHR"), date |-> Str("2025-06-05")],
      [origin |-> Str("LHR"), destination |-> Str(""), date |-> Str("2025-06-09")],
      [origin |-> Str("LHR"), destination |-> Str("KWI"), date |-> Undefined] }

SegmentArrays == UNION { [1..n -> LegSpecs] : n \in 0..MaxLegs }

MultiRequests ==
    { sh @@ NoSingleFields @@ [tripType |-> Str("multi"), segments |-> sg] :
        sh \in Shared,
        sg \in {Undefined, Str("KWI-DXB")} \cup { Arr(a) : a \in SegmentArrays } }

OtherRequests ==
    { sh @@ NoSingleFields @@ [tripType |-> Str("openjaw"), segments |-> Undefined] :
        sh \in Shared }

Requests == SingleRequests \cup MultiRequests \cup OtherRequests

FlightSegment(id, from, to) ==
    [id |-> Str(id), carrierCode |-> "KU", number |-> "671",
     departure |-> [iataCode |-> from, at |-> "T08:00"],
     arrival |-> [iataCode |-> to, at |-> "T11:00"]]

Itinerary(segs) == [duration |-> "PT3H", segments |-> segs]

RawOffer(id, total, itins, pricings) ==
    [id |-> id, price |-> [total |-> total, currency |-> "KWD"], itineraries |-> itins,
     travelerPricings |-> pricings]

EconomyFare ==
    [segmentId |-> Str("1"), cabin |-> Str("ECONOMY"), class |-> Undefined,
     brandedFare |-> Undefined, fareBasis |-> Undefined, includedCheckedBags |-> Undefined]

OneSegment == <<Itinerary(<<FlightSegment("1", "KWI", "DXB")>>)>>

\* the offers an upstream answer of the handler specification is made of
AnswerOffers ==
    { RawOffer("a", <<"3">>, OneSegment, Undefined),
      RawOffer("b", <<"7">>, OneSegment,
               Arr(<<[t |-> "object", fareDetailsBySegment |-> Arr(<<EconomyFare>>)]>>)),
      RawOffer("c", <<"x", "3">>, OneSegment, Undefined),
      RawOffer("d", <<"3">>, <<>>, Undefined),
      RawOffer("e", <<"3">>, <<Itinerary(<<>>)>>, Undefined) }

\* amadeusResponse.data.data: absent, or offers with pairwise distinct identifiers
Answers ==
    {Undefined} \cup
    { Arr(a) : a \in { b \in UNION { [1..n -> AnswerOffers] : n \in 0..MaxOffers } :
                         \A j, k \in 1..Len(b) : j # k => b[j].id # b[k].id } }

(***************************************************************************)
(* The request handler                                                     *)
(***************************************************************************)
SearchCall(leg, params) ==
    [kind |-> "search", leg |-> leg, params |-> params, outcome |-> "pending",
     normalized |-> <<>>, sawMalformed |-> FALSE, sawNonNumeric |-> FALSE]

AuthCall ==
    [kind |-> "auth", leg |-> 0, params |-> [grant_type |-> "client_credentials"],
     outcome |-> "pending", normalized |-> <<>>, sawMalformed |-> FALSE,
     sawNonNumeric |-> FALSE]

\* the pending call comes back
Settle(outcome) == [calls EXCEPT ![Len(calls)].outcome = outcome]

Goto(pc_, i_, legs_, calls_, res_, failed_) ==
    /\ pc' = pc_
    /\ i' = i_
    /\ legs' = legs_
    /\ calls' = calls_
    /\ res' = res_
    /\ failed' = failed_
    /\ UNCHANGED <<req, offer, option>>

\* the body of the multi-city loop from the test i < segments.length to the await
LoopStep(k, legsNow, callsNow) ==
    LET segs == req.segments.a
    IN  IF k >= Len(segs)
        THEN Goto("done", k, legsNow, callsNow, Respond200(MultiBody(req, legsNow)), "none")
        ELSE IF InvalidSeg(segs[k + 1])
        THEN Goto("done", k, legsNow, callsNow,
                  Respond400("Each segment must include origin, destination, and date (YYYY-MM-DD)"),
                  "none")
        ELSE Goto("awaitSearch", k, legsNow,
                  Append(callsNow, SearchCall(k + 1, LegParams(req, segs[k + 1]))),
                  res, "none")

\* const token = await getAccessToken(): the call is issued
GetAccessToken ==
    /\ pc = "received"
    /\ Goto("awaitToken", i, legs, <<AuthCall>>, res, "none")

\* the token call fails: the catch block answers
TokenRejected ==
    /\ pc = "awaitToken"
    /\ Goto("done", i, legs, Settle("error"), Respond500("token request failed"), "auth")

\* the token arrives: the handler runs to its first search call or to a response
TokenResolved ==
    /\ pc = "awaitToken"
    /\ LET T == tripType(req)
           c == Settle("ok")
       IN  IF T = Str("oneway") \/ T = Str("roundtrip")
           THEN IF MissingSingleField(req)
                THEN Goto("done", i, legs, c,
                          Respond400("origin, destination, and departureDate are required"),
                          "none")
                ELSE IF T = Str("roundtrip") /\ Falsy(req.returnDate)
                THEN Goto("done", i, legs, c,
                          Respond400("returnDate is required for roundtrip searches"), "none")
                ELSE Goto("awaitSearch", i, legs, Append(c, SearchCall(0, SingleParams(req))),
                          res, "none")
           ELSE IF T = Str("multi")
           THEN IF MissingSegments(req)
                THEN Goto("done", i, legs, c,
                          Respond400("segments array is required for multi-city searches"),
                          "none")
                ELSE LoopStep(0, <<>>, c)
           ELSE Goto("done", i, legs, c,
                     Respond400("tripType must be 'oneway', 'roundtrip', or 'multi'"), "none")

\* variant: a failed leg is recorded without options and the loop goes on
SearchRejectedSkipsLeg ==
    /\ pc = "awaitSearch"
    /\ IF tripType(req) = Str("multi")
       THEN LoopStep(i + 1, Append(legs, LegEntry(i, req.segments.a[i + 1], <<>>)),
                     Settle("error"))
       ELSE Goto("done", i, legs, Settle("error"), Respond500("search request failed"),
                 "search")

\* the search call fails: the catch block answers
SearchRejected ==
    /\ pc = "awaitSearch"
    /\ Goto("done", i, legs, Settle("error"), Respond500("search request failed"), "search")

Malformed(o) == o.itineraries = <<>> \/ o.itineraries[1].segments = <<>>
NonNumeric(o) == o.price.total = <<>> \/ Head(o.price.total) \notin Digits

\* the search answer arrives: normalize, filter, then answer or go on with the next leg
SearchResolved ==
    /\ pc = "awaitSearch"
    /\ \E data \in Answers :
         LET offers == OrElse(data, Arr(<<>>)).a
             mapped == MapOffers(offers)
             seen == [Settle("ok") EXCEPT
                        ![Len(calls)].sawMalformed = \E k \in 1..Len(offers) : Malformed(offers[k]),
                        ![Len(calls)].sawNonNumeric = \E k \in 1..Len(offers) : NonNumeric(offers[k])]
         IN  IF Throws(mapped)
             THEN Goto("done", i, legs, seen,
                       Respond500("Cannot read properties of undefined"), "normalize")
             ELSE LET options == BudgetFilter(mapped, req.maxPrice)
                      c == [seen EXCEPT ![Len(calls)].normalized = mapped]
                  IN  IF tripType(req) = Str("multi")
                      THEN LoopStep(i + 1, Append(legs, LegEntry(i, req.segments.a[i + 1], options)), c)
                      ELSE Goto("done", i, legs, c, Respond200(SingleBody(req, options)), "none")

NoOffer == [t |-> "none"]

Init ==
    /\ req \in Requests
    /\ pc = "received"
    /\ i = 0
    /\ legs = <<>>
    /\ calls = <<>>
    /\ res = NoResponse
    /\ failed = "none"
    /\ offer = NoOffer
    /\ option = NoOffer

Next ==
    \/ GetAccessToken
    \/ TokenRejected
    \/ TokenResolved
    \/ SearchRejected
    \/ SearchResolved

Spec == Init /\ [][Next]_vars

(***************************************************************************)
(* The normalizer on its own: one offer in, one Option (or a throw) out    *)
(***************************************************************************)
NoStringFields ==
    [cabin |-> Undefined, class |-> Undefined, brandedFare |-> Undefined,
     fareBasis |-> Undefined]

AllStringFields ==
    [cabin |-> Str("BUSINESS"), class |-> Str("J"), brandedFare |-> Str("FLEX"),
     fareBasis |-> Str("JOW")]

\* all four string fields, none of them, or exactly one of them
StringFields ==
    {AllStringFields, NoStringFields}
    \cup { [NoStringFields EXCEPT ![f] = AllStringFields[f]] : f \in DOMAIN NoStringFields }

CheckedBags == { [t |-> "object", quantity |-> q] : q \in {Undefined, Num(0), Num(2)} }

SegmentIds == {Str("1"), Str("2")}

\* fare-detail entries: string fields without a bag allowance, or a bag allowance alone
FareDetails ==
    { [segmentId |-> id, includedCheckedBags |-> Undefined] @@ f :
        id \in SegmentIds, f \in StringFields }
    \cup
    { [segmentId |-> id, includedCheckedBags |-> b] @@ NoStringFields :
        id \in SegmentIds, b \in CheckedBags }

Traveler(fds) == [t |-> "object", fareDetailsBySegment |-> fds]

TravelerPricings ==
    {Undefined, Arr(<<>>), Arr(<<Traveler(Undefined)>>)}
    \cup
    UNION { { Arr(<<Traveler(Arr(fds))>>),
              Arr(<<Traveler(Arr(fds)), Traveler(Arr(<<EconomyFare>>))>>) } :
            fds \in UNION { [1..n -> FareDetails] : n \in 0..MaxFareDetails } }

TwoSegments ==
    <<Itinerary(<<FlightSegment("1", "KWI", "DXB"), FlightSegment("2", "DXB", "LHR")>>)>>

PriceTotals == { <<"5", "4", "2">>, <<"0">>, <<"1", "2", "x">>, <<"x">>, <<>> }

NormalizerOffers ==
    { RawOffer("n", <<"5", "4", "2">>, it, tp) :
        it \in {OneSegment, TwoSegments}, tp \in TravelerPricings }
    \cup
    { RawOffer("n", total, it, Undefined) :
        total \in PriceTotals, it \in {<<>>, <<Itinerary(<<>>)>>, OneSegment} }

InitNormalizer ==
    /\ offer \in NormalizerOffers
    /\ option = NoOffer
    /\ pc = "offer"
    /\ req = NoOffer
    /\ i = 0
    /\ legs = <<>>
    /\ calls = <<>>
    /\ res = NoResponse
    /\ failed = "none"

Normalize ==
    /\ pc = "offer"
    /\ option' = mapOfferToOption(offer)
    /\ pc' = "normalized"
    /\ UNCHANGED <<req, i, legs, calls, res, failed, offer>>

NextNormalizer == Normalize

SpecNormalizer == InitNormalizer /\ [][NextNormalizer]_vars

(***************************************************************************)
(* Vocabulary of the properties                                            *)
(***************************************************************************)
IsSingle == tripType(req) \in {Str("oneway"), Str("roundtrip")}
IsMulti == tripType(req) = Str("multi")
Handling == pc \in {"received", "awaitToken", "awaitSearch", "done"}
Answered == pc = "done"

SearchCalls == SelectSeq(calls, LAMBDA c : c.kind = "search")

\* a request that fails validation before any leg is looked at
FailsRequestValidation ==
    \/ IsSingle /\ MissingSingleField(req)
    \/ tripType(req) = Str("roundtrip") /\ Falsy(req.returnDate)
    \/ IsMulti /\ MissingSegments(req)
    \/ ~IsSingle /\ ~IsMulti

HasInvalidLeg ==
    /\ IsMulti
    /\ ~MissingSegments(req)
    /\ \E k \in 1..Len(req.segments.a) : InvalidSeg(req.segments.a[k])

AllLegsValid ==
    /\ IsMulti
    /\ ~MissingSegments(req)
    /\ \A k \in 1..Len(req.segments.a) : ~InvalidSeg(req.segments.a[k])

ValidSingle == IsSingle /\ ~FailsRequestValidation

\* the call or the normalization of its answer failed
CallFailed(c) == c.outcome = "error" \/ c.sawMalformed

\* the Options with a numeric price at most C, in their order
PricedAtMost(options, C) ==
    SelectSeq(options, LAMBDA o : o.price.t = "number" /\ o.price.n <= C.n)

(***************************************************************************)
(* C1  A request that fails validation (single-leg field missing,          *)
(* roundtrip without returnDate, multi without a non-empty segments array, *)
(* unsupported tripType) issues no upstream call at all, neither the       *)
(* authentication call nor a search call.                                  *)
(* The handler awaits getAccessToken() before it validates anything.       *)
(***************************************************************************)
C1_NoUpstreamCallOnInvalidRequest ==
    (Handling /\ FailsRequestValidation) => calls = <<>>

(***************************************************************************)
(* C2  A multi request with an invalid leg at position k issues no search  *)
(* call for any leg, the valid legs before k included.                     *)
(* The loop validates leg k only after the searches of legs 1..k-1.        *)
(***************************************************************************)
C2_NoSearchWhenALegIsInvalid ==
    (Handling /\ HasInvalidLeg) => SearchCalls = <<>>

(***************************************************************************)
(* C3  A request that fails validation is answered with 400, whatever the  *)
(* upstream calls do; never with 500 or 200.                               *)
(***************************************************************************)
C3_InvalidRequestAnswered400 ==
    (Answered /\ (FailsRequestValidation \/ HasInvalidLeg))
        => res.status = 400

(***************************************************************************)
(* C4  Budget filter: with a max-price ceiling C supplied (C = 0 included) *)
(* the options returned for the single search, and for each leg, are       *)
(* exactly the normalized Options with price <= C, in their order.         *)
(***************************************************************************)
C4_BudgetFilterExact ==
    (Answered /\ res.status = 200 /\ req.maxPrice # Undefined)
        => /\ IsSingle =>
                res.body.options = PricedAtMost(SearchCalls[1].normalized, req.maxPrice)
           /\ IsMulti =>
                \A k \in 1..Len(res.body.legs) :
                    res.body.legs[k].options
                        = PricedAtMost(SearchCalls[k].normalized, req.maxPrice)

(***************************************************************************)
(* C5  An offer whose total price does not parse to a number makes the     *)
(* request fail with 500: no 200 is produced and the offer is not dropped. *)
(***************************************************************************)
C5_NonNumericPriceIsHardFailure ==
    (Answered /\ \E k \in 1..Len(calls) : calls[k].sawNonNumeric) => res.status = 500

(***************************************************************************)
(* C6  An offer with zero itineraries, or with a first itinerary of zero   *)
(* segments, makes the normalizer fail: the request is answered with 500,  *)
(* no Option is emitted for it and no 200 is produced.                     *)
(***************************************************************************)
C6_MalformedOfferIsHardFailure ==
    (\E k \in 1..Len(calls) : calls[k].sawMalformed)
        => /\ Answered
           /\ res.status = 500
           /\ DOMAIN res.body = {"error", "details"}
           /\ \A k \in 1..Len(calls) : calls[k].normalized = <<>>
              \/ ~calls[k].sawMalformed

C6_Witness ==
    /\ Answered
    /\ res.status = 500
    /\ Len(calls) = 3
    /\ calls[3].sawMalformed
    /\ calls[2].outcome = "ok" /\ ~calls[2].sawMalformed

(***************************************************************************)
(* C7  A multi request with N >= 1 valid legs whose upstream calls all     *)
(* succeed (and whose answers normalize) is answered with 200 and exactly  *)
(* N leg entries in request order, entry i carrying legIndex = i and the   *)
(* origin, destination and date of the i-th leg spec.                      *)
(***************************************************************************)
C7_MultiLegsInRequestOrder ==
    (Answered /\ AllLegsValid /\ \A k \in 1..Len(calls) : ~CallFailed(calls[k]))
        => /\ res.status = 200
           /\ Len(res.body.legs) = Len(req.segments.a)
           /\ \A k \in 1..Len(req.segments.a) :
                /\ res.body.legs[k].legIndex = k
                /\ res.body.legs[k].origin = req.segments.a[k].origin
                /\ res.body.legs[k].destination = req.segments.a[k].destination
                /\ res.body.legs[k].date = req.segments.a[k].date

C7_Witness ==
    /\ Answered
    /\ AllLegsValid
    /\ res.status = 200
    /\ Len(res.body.legs) >= 2
    /\ res.body.legs[1].origin # res.body.legs[2].origin
    /\ res.body.legs[2].options # <<>>

(***************************************************************************)
(* C8  Within a multi request the search calls are issued one at a time in *)
(* request order, the call for leg j only after the calls of all legs      *)
(* before j came back and normalized; once the call or the normalization   *)
(* of leg k fails no later leg is searched and the answer is a 500 that    *)
(* carries no leg results.                                                 *)
(***************************************************************************)
C8_SequentialLegsAbortOnFailure ==
    IsMulti =>
        /\ \A j \in 1..Len(SearchCalls) : SearchCalls[j].leg = j
        /\ \A j \in 1..Len(calls) :
              j < Len(calls) => calls[j].outcome = "ok" /\ ~CallFailed(calls[j])
        /\ \A j \in 1..Len(calls) :
              CallFailed(calls[j])
                  => /\ Answered
                     /\ res.status = 500
                     /\ "legs" \notin DOMAIN res.body

C8_Witness ==
    /\ AllLegsValid
    /\ Answered
    /\ res.status = 500
    /\ Len(req.segments.a) >= 2
    /\ Len(SearchCalls) = 1
    /\ CallFailed(SearchCalls[1])

(***************************************************************************)
(* C10  A valid oneway or roundtrip request issues exactly one search      *)
(* call, whose parameters hold returnDate iff the trip is a roundtrip,     *)
(* maxPrice iff a maxPrice was supplied, travelClass iff a travelClass was *)
(* supplied, and no null or empty optional parameter.                      *)
(* (Stated from the moment the token has arrived.)                         *)
(***************************************************************************)
C10_SingleSearchOptionalParams ==
    (ValidSingle /\ pc \in {"awaitSearch", "done"} /\ calls[1].outcome = "ok")
        => /\ Len(SearchCalls) = 1
           /\ LET p == SearchCalls[1].params
              IN  /\ "returnDate" \in DOMAIN p <=> tripType(req) = Str("roundtrip")
                  /\ "maxPrice" \in DOMAIN p <=> req.maxPrice # Undefined
                  /\ "travelClass" \in DOMAIN p <=> req.travelClass # Undefined
                  /\ \A f \in DOMAIN p : p[f] \notin {Undefined, Null, Str("")}

(***************************************************************************)
(* C9  For a well-formed offer the normalizer does not throw and gives     *)
(* every segment S of the first itinerary all five fare fields: each is    *)
(* the value present in the first traveler-pricing record's fare-detail    *)
(* entry for S's identifier (the last such entry, when the list holds      *)
(* several), and null when the field, the entry, the list or the           *)
(* traveler-pricing records are absent; the offer-level cabin,             *)
(* brandedFare, fareBasis and checkedBags are those of the first segment.  *)
(***************************************************************************)
FareFields == {"cabin", "class", "brandedFare", "fareBasis", "checkedBags"}

EntriesFor(o, id) ==
    LET tp == o.travelerPricings
        details == IF tp = Undefined THEN <<>>
                   ELSE IF tp.a = <<>> THEN <<>>
                   ELSE IF tp.a[1].fareDetailsBySegment = Undefined THEN <<>>
                   ELSE tp.a[1].fareDetailsBySegment.a
    IN  SelectSeq(details, LAMBDA fd : fd.segmentId = id)

ExpectedFare(o, id, f) ==
    LET es == EntriesFor(o, id)
    IN  IF es = <<>> THEN Null
        ELSE LET e == es[Len(es)]
                 v == IF f # "checkedBags" THEN e[f]
                      ELSE IF e.includedCheckedBags = Undefined THEN Undefined
                      ELSE e.includedCheckedBags.quantity
             IN  IF v = Undefined THEN Null ELSE v

====
